---------------------------- MODULE Spec2Model ----------------------------
(***************************************************************************)
(* Model of odemis.acq.path.OpticalPathManager (src/src/odemis/acq/path.py) *)
(* the optical path manager of a SPARC microscope: the static mode tables, *)
(* their filtering at construction, setPath (resolution of the targets of  *)
(* a mode into one move per actuator, save and restore of band, slit-in    *)
(* and grating around alignment modes, wait on the move futures) and       *)
(* guessMode.                                                              *)
(*                                                                         *)
(* Values of every kind (angles, slit widths, choice keys, choice values)  *)
(* are strings, so that any two of them can be compared as Python's ==     *)
(* compares them: "0" is 0, "rad90" is math.radians(90), "500e-6" and      *)
(* "10e-6" are the slit widths of the tables.                              *)
(***************************************************************************)
EXTENDS Integers, Sequences, FiniteSets, TLC

VARIABLES
    microscope,   \* microscope.role
    registry,     \* roles of the components model.getComponent can find
    axes,         \* role -> axis -> [hasChoices, choices]  (comp.axes)
    position,     \* role -> axis -> value                  (comp.position.value)
    modes,        \* keys of self._modes
    guessed,      \* keys of self.guessed
    known_comps,  \* keys of self._known_comps
    stored,       \* self._stored: axis -> value
    last_mode,    \* self._last_mode ("None" before the first setPath)
    fmoves,       \* the futures of the running setPath, in the order waited on
    orphans,      \* pending moves issued by a setPath that raised before waiting
    pc,           \* where the control thread is: "idle", "waiting" (in the loop
                  \* of f.result(), path.py 293-297), "raised" (setPath has
                  \* raised) or "guessed" (guessMode has its outcome)
    raised,       \* the exception setPath has raised, and the mode it was given
    guess,        \* the stream guessMode was given, and its outcome
    failures,     \* number of moves that have failed so far
    result,       \* history: the last setPath that returned, whether all its
                  \* moves succeeded, and the positions when it returned
    excursion,    \* history: band and slit-in when the alignment set was entered
    premirror     \* history: the grating in use when a mode last asked for the mirror

vars == <<microscope, registry, axes, position, modes, guessed, known_comps,
          stored, last_mode, fmoves, orphans, pc, raised, guess,
          failures, result, excursion, premirror>>

hardware == <<microscope, registry, axes>>
tables == <<modes, guessed>>

(***************************************************************************)
(* Bounds of the model.                                                    *)
(***************************************************************************)
\* moves that may fail with IOError in one behaviour
MaxFailures == 1
\* sub-streams of a MultipleDetectorStream
MaxStreams == 2
\* moves left in flight by calls of setPath that raised
MaxOrphans == 2

(***************************************************************************)
(* path.py 30-121: the sentinel, the static tables, the alignment set.    *)
(***************************************************************************)
GRATING_NOT_MIRROR == "GRATING_NOT_MIRROR"

SPARC_MODES ==
    ("ar" :> [det |-> "ccd", conf |->
        ("lens-switch" :> ("rx" :> "rad90")) @@
        ("ar-spec-selector" :> ("rx" :> "0")) @@
        ("ar-det-selector" :> ("rx" :> "0"))]) @@
    ("cli" :> [det |-> "cl-detector", conf |->
        ("lens-switch" :> ("rx" :> "rad90")) @@
        ("ar-spec-selector" :> ("rx" :> "0")) @@
        ("ar-det-selector" :> ("rx" :> "rad90"))]) @@
    ("spectral" :> [det |-> "spectrometer", conf |->
        ("lens-switch" :> ("rx" :> "rad90")) @@
        ("ar-spec-selector" :> ("rx" :> "rad90")) @@
        ("spec-det-selector" :> ("rx" :> "0"))]) @@
    ("monochromator" :> [det |-> "monochromator", conf |->
        ("lens-switch" :> ("rx" :> "rad90")) @@
        ("ar-spec-selector" :> ("rx" :> "rad90")) @@
        ("spec-det-selector" :> ("rx" :> "rad90"))]) @@
    ("mirror-align" :> [det |-> "ccd", conf |->
        ("lens-switch" :> ("rx" :> "0")) @@
        ("filter" :> ("band" :> "pass-through")) @@
        ("ar-spec-selector" :> ("rx" :> "0")) @@
        ("ar-det-selector" :> ("rx" :> "0"))]) @@
    ("chamber-view" :> [det |-> "ccd", conf |->
        ("lens-switch" :> ("rx" :> "rad90")) @@
        ("filter" :> ("band" :> "pass-through")) @@
        ("ar-spec-selector" :> ("rx" :> "0")) @@
        ("ar-det-selector" :> ("rx" :> "0"))]) @@
    ("fiber-align" :> [det |-> "spectrometer", conf |->
        ("lens-switch" :> ("rx" :> "rad90")) @@
        ("filter" :> ("band" :> "pass-through")) @@
        ("ar-spec-selector" :> ("rx" :> "rad90")) @@
        ("spec-det-selector" :> ("rx" :> "0")) @@
        ("spectrograph" :> ("slit-in" :> "500e-6"))])

SPARC2_MODES ==
    ("ar" :> [det |-> "ccd", conf |->
        ("lens-switch" :> ("x" :> "on")) @@
        ("slit-in-big" :> ("x" :> "on")) @@
        ("spectrograph" :> ("grating" :> "mirror")) @@
        ("cl-det-selector" :> ("x" :> "off")) @@
        ("spec-det-selector" :> ("rx" :> "0"))]) @@
    ("spectral-integrated" :> [det |-> "spectrometer", conf |->
        ("lens-switch" :> ("x" :> "off")) @@
        ("slit-in-big" :> ("x" :> "off")) @@
        ("cl-det-selector" :> ("x" :> "off")) @@
        ("spec-det-selector" :> ("rx" :> "0")) @@
        ("spectrograph" :> ("grating" :> GRATING_NOT_MIRROR))]) @@
    ("spectral-dedicated" :> [det |-> "spectrometer", conf |->
        ("lens-switch" :> ("x" :> "off")) @@
        ("slit-in-big" :> ("x" :> "off")) @@
        ("cl-det-selector" :> ("x" :> "off")) @@
        ("spec-det-selector" :> ("rx" :> "rad90")) @@
        ("spectrograph" :> ("grating" :> GRATING_NOT_MIRROR))]) @@
    ("mirror-align" :> [det |-> "ccd", conf |->
        ("lens-switch" :> ("x" :> "off")) @@
        ("slit-in-big" :> ("x" :> "on")) @@
        ("spectrograph" :> ("grating" :> "mirror")) @@
        ("cl-det-selector" :> ("x" :> "off")) @@
        ("spec-det-selector" :> ("rx" :> "0"))]) @@
    ("chamber-view" :> [det |-> "ccd", conf |->
        ("lens-switch" :> ("x" :> "on")) @@
        ("slit-in-big" :> ("x" :> "on")) @@
        ("spectrograph" :> ("grating" :> "mirror")) @@
        ("cl-det-selector" :> ("x" :> "off")) @@
        ("spec-det-selector" :> ("rx" :> "0"))]) @@
    ("spec-focus" :> [det |-> "ccd", conf |->
        ("lens-switch" :> ("x" :> "off")) @@
        ("slit-in-big" :> ("x" :> "off")) @@
        ("spectrograph" :> (("slit-in" :> "10e-6") @@ ("grating" :> "mirror"))) @@
        ("cl-det-selector" :> ("x" :> "off")) @@
        ("spec-det-selector" :> ("rx" :> "0"))])

ALIGN_MODES == {"mirror-align", "chamber-view", "fiber-align", "spec-focus"}


(***************************************************************************)
(* The hardware a manager may be constructed on.  An axis is continuous    *)
(* (no choices) or discrete: its choices are the pairs <<key, value>> of   *)
(* comp.axes[axis].choices in the order items() yields them.               *)
(***************************************************************************)
Cont == [hasChoices |-> FALSE, choices |-> <<>>]

Disc(items) == [hasChoices |-> TRUE, choices |-> items]

Detectors == {"ccd", "cl-detector", "spectrometer", "monochromator", "sp-ccd"}

\* the detectors of a microscope: any of the CCD, the spectrometer and the
\* dedicated spectral CCD, or every detector
DetectorSets == SUBSET {"ccd", "spectrometer", "sp-ccd"} \cup {Detectors}

OnOff == Disc(<<<<"p0", "on">>, <<"p1", "off">>>>)

\* legacy SPARC: filter wheel with a pass-through, spectrograph with a slit
SparcFull ==
    [axes |-> ("lens-switch" :> ("rx" :> Cont)) @@
              ("filter" :> ("band" :> Disc(<<<<"b1", "green">>, <<"b6", "pass-through">>>>))) @@
              ("spectrograph" :> (("slit-in" :> Cont) @@ ("wavelength" :> Cont))),
     position |-> ("lens-switch" :> ("rx" :> "0")) @@
              ("filter" :> ("band" :> "b1")) @@
              ("spectrograph" :> (("slit-in" :> "100e-6") @@ ("wavelength" :> "500nm")))]

\* legacy SPARC: no pass-through on the filter wheel, no spectrograph
SparcBare ==
    [axes |-> ("ar-det-selector" :> ("rx" :> Cont)) @@
              ("spec-det-selector" :> ("rx" :> Cont)) @@
              ("filter" :> ("band" :> Disc(<<<<"b1", "green">>, <<"b2", "red">>>>))),
     position |-> ("ar-det-selector" :> ("rx" :> "0")) @@
              ("spec-det-selector" :> ("rx" :> "rad90")) @@
              ("filter" :> ("band" :> "b2"))]

\* SPARC2: spectrograph with a mirror among its gratings
Sparc2Mirror ==
    [axes |-> ("lens-switch" :> ("x" :> OnOff)) @@
              ("spec-det-selector" :> ("rx" :> Cont)) @@
              ("spectrograph" :> (("grating" :> Disc(<<<<"g1", "600gmm">>, <<"g2", "mirror">>,
                                                       <<"g3", "1200gmm">>>>)) @@
                                  ("slit-in" :> Cont) @@ ("wavelength" :> Cont))),
     position |-> ("lens-switch" :> ("x" :> "p0")) @@
              ("spec-det-selector" :> ("rx" :> "rad90")) @@
              ("spectrograph" :> (("grating" :> "g3") @@ ("slit-in" :> "100e-6") @@
                                  ("wavelength" :> "500nm")))]

\* SPARC2: spectrograph whose gratings hold no mirror (zero order is used), no slit
Sparc2NoMirror ==
    [axes |-> ("cl-det-selector" :> ("x" :> OnOff)) @@
              ("spectrograph" :> (("grating" :> Disc(<<<<"g1", "600gmm">>, <<"g2", "1200gmm">>>>)) @@
                                  ("wavelength" :> Cont))),
     position |-> ("cl-det-selector" :> ("x" :> "p0")) @@
              ("spectrograph" :> (("grating" :> "g2") @@ ("wavelength" :> "500nm")))]

\* SPARC2: spectrograph with a mirror only, and no wavelength axis
Sparc2OnlyMirror ==
    [axes |-> ("lens-switch" :> ("x" :> OnOff)) @@
              ("spectrograph" :> ("grating" :> Disc(<<<<"g1", "mirror">>>>))),
     position |-> ("lens-switch" :> ("x" :> "p0")) @@
              ("spectrograph" :> ("grating" :> "g1"))]

\* SPARC2: spectrograph with one grating, no mirror, and no wavelength axis;
\* a big slit whose only choice is "on"
Sparc2NoZeroOrder ==
    [axes |-> ("slit-in-big" :> ("x" :> Disc(<<<<"p0", "on">>>>))) @@
              ("spectrograph" :> ("grating" :> Disc(<<<<"g1", "600gmm">>>>))),
     position |-> ("slit-in-big" :> ("x" :> "p0")) @@
              ("spectrograph" :> ("grating" :> "g1"))]

Actuators(role) ==
    IF role = "sparc2" THEN {Sparc2Mirror, Sparc2NoMirror, Sparc2OnlyMirror, Sparc2NoZeroOrder}
    ELSE {SparcFull, SparcBare}

(***************************************************************************)
(* model.getComponent(role=...) and OpticalPathManager.__init__            *)
(***************************************************************************)
\* model.getComponent finds a component of that role (else LookupError)
Resolves(reg, role) == role \in reg

\* path.py 138-143: the static table the microscope role selects
StaticTable(role) == IF role = "sparc2" THEN SPARC2_MODES ELSE SPARC_MODES

\* path.py 158-163: the modes whose detector _getComponent finds
SupportedModesAlignOnly(role, reg) ==
    {m \in DOMAIN StaticTable(role) \cap ALIGN_MODES : Resolves(reg, StaticTable(role)[m].det)}

SupportedModesAll(role, reg) == DOMAIN StaticTable(role)

SupportedModes(role, reg) ==
    {m \in DOMAIN StaticTable(role) : Resolves(reg, StaticTable(role)[m].det)}

\* path.py 158-163: the detectors _getComponent has cached by then
CachedAtInitNone(role, reg) == {}

CachedAtInit(role, reg) ==
    {StaticTable(role)[m].det : m \in DOMAIN StaticTable(role)} \cap reg

\* path.py 144-149: no stream should ever imply an alignment mode
GuessedNoAlignButFocus(role) == DOMAIN StaticTable(role) \ (ALIGN_MODES \ {"spec-focus"})

GuessedNoAlignKeep(role) == DOMAIN StaticTable(role)

GuessedNoAlign(role) == DOMAIN StaticTable(role) \ ALIGN_MODES

\* path.py 165-174: integrated or dedicated spectral mode, by the presence of sp-ccd
GuessedInitBoth(role, reg) == GuessedNoAlign(role)

GuessedInit(role, reg) ==
    IF role = "sparc2"
    THEN IF "sp-ccd" \in reg
         THEN GuessedNoAlign(role) \ {"spectral-integrated"}
         ELSE GuessedNoAlign(role) \ {"spectral-dedicated"}
    ELSE GuessedNoAlign(role)

NoCall == [mode |-> "None", allok |-> FALSE, position |-> <<>>]

NoRaise == [exc |-> "none", mode |-> ""]

NoGuess == [called |-> FALSE, stream |-> [isStream |-> FALSE, multi |-> FALSE, dets |-> <<>>],
            exc |-> "none", ret |-> ""]

NoExcursion == [phase |-> "out", fromMode |-> FALSE, band |-> "", slit |-> "", capBand |-> FALSE,
                capSlit |-> FALSE, movBand |-> FALSE, movSlit |-> FALSE, count |-> 0]

\* path.py 130-174: the manager as __init__ leaves it, on any hardware
Init ==
    /\ microscope \in {"sparc", "sparc2"}
    /\ \E dets \in DetectorSets, hw \in Actuators(microscope) :
         /\ registry = dets \cup DOMAIN hw.axes
         /\ axes = hw.axes
         /\ position = hw.position
    /\ modes = SupportedModes(microscope, registry)
    /\ guessed = GuessedInit(microscope, registry)
    /\ known_comps = CachedAtInit(microscope, registry)
    /\ stored = [a \in {"band", "grating", "slit-in"} |-> "absent"]
    /\ last_mode = "None"
    /\ fmoves = <<>>
    /\ orphans = <<>>
    /\ pc = "idle"
    /\ raised = NoRaise
    /\ guess = NoGuess
    /\ failures = 0
    /\ result = NoCall
    /\ excursion = NoExcursion
    /\ premirror = "absent"


(***************************************************************************)
(* Choice tables: comp.axes[axis].choices as the sequence of its items().  *)
(***************************************************************************)
Keys(choices) == {choices[i][1] : i \in DOMAIN choices}

\* choices[key]
ValueAt(choices, key) ==
    LET i == CHOOSE j \in DOMAIN choices : choices[j][1] = key IN choices[i][2]

Matching(choices, value) == {i \in DOMAIN choices : choices[i][2] = value}

Lowest(S) == CHOOSE i \in S : \A j \in S : i <= j

\* for key, value in choices.items(): if value == pos: pos = key; break
FirstKey(choices, value) == choices[Lowest(Matching(choices, value))][1]

\* path.py 264-267: the same loop without a break: every later item is compared
\* with the key already substituted
RECURSIVE ScanNoBreak(_, _, _)
ScanNoBreak(choices, i, pos) ==
    IF i > Len(choices) THEN pos
    ELSE ScanNoBreak(choices, i + 1, IF choices[i][2] = pos THEN choices[i][1] ELSE pos)

(***************************************************************************)
(* setPath, path.py 215-270: what one (axis, pos) of a mode becomes.       *)
(* axis, pos: the entry of the move (when move); save: _stored[axis] is    *)
(* set to the current position; raises: findNonMirror raised ValueError.   *)
(***************************************************************************)
Absent == "absent"

StoredAxes == {"band", "grating", "slit-in"}

Entry(axis, pos, move, save, raises) ==
    [axis |-> axis, pos |-> pos, move |-> move, save |-> save, raises |-> raises]

\* path.py 227, 261: the previous mode is no alignment mode
SavesOnEntryAlways(mode) == TRUE

SavesOnEntry(mode) == mode \notin ALIGN_MODES

\* path.py 217-232
ResolveBandRaw(comp, pos) ==
    LET choices == axes[comp]["band"].choices IN
    IF Matching(choices, pos) # {}
    THEN Entry("band", FirstKey(choices, pos), TRUE, SavesOnEntry(last_mode), FALSE)
    ELSE Entry("band", pos, TRUE, SavesOnEntry(last_mode), FALSE)

ResolveBand(comp, pos) ==
    LET choices == axes[comp]["band"].choices IN
    IF Matching(choices, pos) # {}
    THEN Entry("band", FirstKey(choices, pos), TRUE, SavesOnEntry(last_mode), FALSE)
    ELSE Entry("band", pos, FALSE, FALSE, FALSE)

\* path.py 325-333
findNonMirrorAny(choices) ==
    IF choices = <<>> THEN [found |-> FALSE, key |-> ""]
    ELSE [found |-> TRUE, key |-> choices[1][1]]

findNonMirrorLast(choices) ==
    LET S == {i \in DOMAIN choices : choices[i][2] # "mirror"} IN
    IF S = {} THEN [found |-> FALSE, key |-> ""]
    ELSE [found |-> TRUE, key |-> choices[CHOOSE i \in S : \A j \in S : j <= i][1]]

findNonMirror(choices) ==
    LET S == {i \in DOMAIN choices : choices[i][2] # "mirror"} IN
    IF S = {} THEN [found |-> FALSE, key |-> ""]
    ELSE [found |-> TRUE, key |-> choices[Lowest(S)][1]]

\* path.py 233-259
ResolveGratingNoFallback(comp, pos) ==
    LET choices == axes[comp]["grating"].choices IN
    IF Matching(choices, pos) # {}
    THEN Entry("grating", FirstKey(choices, pos), TRUE,
               ValueAt(choices, position[comp]["grating"]) # "mirror", FALSE)
    ELSE IF pos = "mirror"
         THEN Entry("grating", pos, TRUE, FALSE, FALSE)
         ELSE IF stored["grating"] # Absent
              THEN Entry("grating", stored["grating"], TRUE, FALSE, FALSE)
              ELSE LET nm == findNonMirror(choices) IN
                   Entry("grating", nm.key, nm.found, FALSE, ~nm.found)

ResolveGratingSaveMirror(comp, pos) ==
    LET choices == axes[comp]["grating"].choices IN
    IF Matching(choices, pos) # {}
    THEN Entry("grating", FirstKey(choices, pos), TRUE, TRUE, FALSE)
    ELSE IF pos = "mirror"
         THEN Entry("wavelength", "0", TRUE, FALSE, FALSE)
         ELSE IF stored["grating"] # Absent
              THEN Entry("grating", stored["grating"], TRUE, FALSE, FALSE)
              ELSE LET nm == findNonMirror(choices) IN
                   Entry("grating", nm.key, nm.found, FALSE, ~nm.found)

ResolveGratingFallbackSaves(comp, pos) ==
    LET choices == axes[comp]["grating"].choices IN
    IF Matching(choices, pos) # {}
    THEN Entry("grating", FirstKey(choices, pos), TRUE,
               ValueAt(choices, position[comp]["grating"]) # "mirror", FALSE)
    ELSE IF pos = "mirror"
         THEN Entry("wavelength", "0", TRUE, TRUE, FALSE)
         ELSE IF stored["grating"] # Absent
              THEN Entry("grating", stored["grating"], TRUE, FALSE, FALSE)
              ELSE LET nm == findNonMirror(choices) IN
                   Entry("grating", nm.key, nm.found, FALSE, ~nm.found)

ResolveGratingLeavingOnly(comp, pos) ==
    LET choices == axes[comp]["grating"].choices IN
    IF Matching(choices, pos) # {}
    THEN Entry("grating", FirstKey(choices, pos), TRUE,
               ValueAt(choices, position[comp]["grating"]) # "mirror", FALSE)
    ELSE IF pos = "mirror"
         THEN Entry("wavelength", "0", TRUE, FALSE, FALSE)
         ELSE IF stored["grating"] # Absent /\ last_mode \in ALIGN_MODES
              THEN Entry("grating", stored["grating"], TRUE, FALSE, FALSE)
              ELSE LET nm == findNonMirror(choices) IN
                   Entry("grating", nm.key, nm.found, FALSE, ~nm.found)

ResolveGrating(comp, pos) ==
    LET choices == axes[comp]["grating"].choices IN
    IF Matching(choices, pos) # {}
    THEN Entry("grating", FirstKey(choices, pos), TRUE,
               ValueAt(choices, position[comp]["grating"]) # "mirror", FALSE)
    ELSE IF pos = "mirror"
         THEN Entry("wavelength", "0", TRUE, FALSE, FALSE)
         ELSE IF stored["grating"] # Absent
              THEN Entry("grating", stored["grating"], TRUE, FALSE, FALSE)
              ELSE LET nm == findNonMirror(choices) IN
                   Entry("grating", nm.key, nm.found, FALSE, ~nm.found)

\* path.py 260-262
ResolveSlitIn(comp, pos) == Entry("slit-in", pos, TRUE, SavesOnEntry(last_mode), FALSE)

\* path.py 263-267
ResolveChoiceRaw(comp, axis, pos) == Entry(axis, pos, TRUE, FALSE, FALSE)

ResolveChoice(comp, axis, pos) ==
    IF axes[comp][axis].hasChoices
    THEN Entry(axis, ScanNoBreak(axes[comp][axis].choices, 1, pos), TRUE, FALSE, FALSE)
    ELSE Entry(axis, pos, TRUE, FALSE, FALSE)

\* path.py 215-270: one iteration of the loop over conf.items()
ResolveAxis(comp, axis, pos) ==
    IF axis \notin DOMAIN axes[comp] THEN Entry(axis, pos, FALSE, FALSE, FALSE)
    ELSE IF axis = "band" THEN ResolveBand(comp, pos)
    ELSE IF axis = "grating" THEN ResolveGrating(comp, pos)
    ELSE IF axis = "slit-in" THEN ResolveSlitIn(comp, pos)
    ELSE ResolveChoice(comp, axis, pos)

\* path.py 206, 215: the entries of one actuator of the mode, conf = modeconf[comp]
Entries(comp, modeconf) ==
    {ResolveAxis(comp, a, modeconf[comp][a]) : a \in DOMAIN modeconf[comp]}

\* path.py 214, 268: mv
MoveOfNothing(comp, modeconf) == [a \in {} |-> ""]

MoveOf(comp, modeconf) ==
    LET es == {e \in Entries(comp, modeconf) : e.move} IN
    [a \in {e.axis : e \in es} |-> (CHOOSE e \in es : e.axis = a).pos]

\* the axes of _stored this actuator's entries write
SavedBy(comp, modeconf) ==
    {a \in DOMAIN modeconf[comp] : ResolveAxis(comp, a, modeconf[comp][a]).save}

Raises(comp, modeconf) == \E e \in Entries(comp, modeconf) : e.raises

(***************************************************************************)
(* setPath, path.py 201-290, up to the wait.                               *)
(***************************************************************************)
\* path.py 201: mode in self._modes
ModeExistsStatic(mode) == mode \in DOMAIN StaticTable(microscope)

ModeExists(mode) == mode \in modes

\* path.py 204
ModeConf(mode) == StaticTable(microscope)[mode].conf

\* path.py 177-189: _getComponent(role) returns a component
GetComponent(role) == role \in known_comps \/ Resolves(registry, role)

\* path.py 206-212: the actuators of the mode that are found
FoundUnlessOneMissing(mode) ==
    IF \A r \in DOMAIN ModeConf(mode) : GetComponent(r) THEN DOMAIN ModeConf(mode) ELSE {}

Found(mode) == {r \in DOMAIN ModeConf(mode) : GetComponent(r)}

\* the order in which modeconf.items() yields the roles: fixed for a build
ItemsOrder ==
    <<"lens-switch", "slit-in-big", "filter", "ar-spec-selector", "ar-det-selector",
      "cl-det-selector", "spec-det-selector", "spectrograph">>

Pending(comp, mv) == [comp |-> comp, mv |-> mv, st |-> "pending"]

\* path.py 206-272: the moves of the mode, one per actuator found
ModeMovesSplit(mode) ==
    LET roles == SelectSeq(ItemsOrder, LAMBDA r : r \in Found(mode))
        whole(r) == MoveOf(r, ModeConf(mode))
        first(r) == IF DOMAIN whole(r) = {} THEN {}
                    ELSE {CHOOSE a \in DOMAIN whole(r) : TRUE}
    IN  [i \in 1..(2 * Len(roles)) |->
            LET r == roles[(i + 1) \div 2] IN
            Pending(r, [a \in (IF i % 2 = 1 THEN first(r) ELSE DOMAIN whole(r) \ first(r))
                           |-> whole(r)[a]])]

ModeMoves(mode) ==
    LET roles == SelectSeq(ItemsOrder, LAMBDA r : r \in Found(mode))
    IN  [i \in DOMAIN roles |-> Pending(roles[i], MoveOf(roles[i], ModeConf(mode)))]

\* path.py 228, 246, 262: _stored after the loop over the actuators in `roles`
StoredAfterTarget(mode, roles) ==
    [a \in StoredAxes |->
        IF \E r \in roles : a \in SavedBy(r, ModeConf(mode))
        THEN MoveOf(CHOOSE r \in roles : a \in SavedBy(r, ModeConf(mode)), ModeConf(mode))[a]
        ELSE stored[a]]

StoredAfter(mode, roles) ==
    [a \in StoredAxes |->
        IF \E r \in roles : a \in SavedBy(r, ModeConf(mode))
        THEN position[CHOOSE r \in roles : a \in SavedBy(r, ModeConf(mode))][a]
        ELSE stored[a]]

\* path.py 275: about to leave the alignment modes
LeavingAlignAnyTarget(mode) == last_mode \in ALIGN_MODES

LeavingAlignInverted(mode) == last_mode \notin ALIGN_MODES /\ mode \notin ALIGN_MODES

LeavingAlign(mode) == last_mode \in ALIGN_MODES /\ mode \notin ALIGN_MODES

\* path.py 274-287: the restoring moves, given _stored after the loop
RestoreMovesAnyPrevious(mode, st) ==
    IF mode \notin ALIGN_MODES
    THEN (IF st["band"] # Absent /\ GetComponent("filter")
          THEN <<Pending("filter", "band" :> st["band"])>> ELSE <<>>)
         \o
         (IF st["slit-in"] # Absent /\ GetComponent("spectrograph")
          THEN <<Pending("spectrograph", "slit-in" :> st["slit-in"])>> ELSE <<>>)
    ELSE <<>>

RestoreNone(mode, st) == <<>>

RestoreMoves(mode, st) ==
    IF LeavingAlign(mode)
    THEN (IF st["band"] # Absent /\ GetComponent("filter")
          THEN <<Pending("filter", "band" :> st["band"])>> ELSE <<>>)
         \o
         (IF st["slit-in"] # Absent /\ GetComponent("spectrograph")
          THEN <<Pending("spectrograph", "slit-in" :> st["slit-in"])>> ELSE <<>>)
    ELSE <<>>

\* the roles _getComponent caches while restoring
RestoreFound(mode, st) ==
    IF LeavingAlign(mode)
    THEN {r \in {"filter"} : st["band"] # Absent /\ GetComponent(r)} \cup
         {r \in {"spectrograph"} : st["slit-in"] # Absent /\ GetComponent(r)}
    ELSE {}

\* the actuators of the mode whose entries make findNonMirror raise
Raisers(mode) == {r \in Found(mode) : Raises(r, ModeConf(mode))}

\* path.py 201-202: the raise comes before any effect
AfterInvalidLate(mode) == [known_comps |-> known_comps, stored |-> stored, last_mode |-> mode]

AfterInvalid(mode) ==
    [known_comps |-> known_comps, stored |-> stored, last_mode |-> last_mode]

(***************************************************************************)
(* History of the alignment excursions, kept for the properties: whether   *)
(* the alignment set was entered from a mode, band and slit-in then,       *)
(* whether that call wrote them to _stored, and whether one alignment mode *)
(* was set since (count = 1) or more (count = 2), and whether a mode of    *)
(* the excursion has issued a move of band, of slit-in.                    *)
(***************************************************************************)
PositionOr(comp, axis) ==
    IF comp \in DOMAIN position /\ axis \in DOMAIN position[comp]
    THEN position[comp][axis] ELSE "none"

Captures(mode, comp, axis) ==
    /\ comp \in Found(mode)
    /\ axis \in SavedBy(comp, ModeConf(mode))

\* the mode issues a move that carries the axis
Touches(mode, axis) == \E r \in Found(mode) : axis \in DOMAIN MoveOf(r, ModeConf(mode))

ExcursionAfter(mode) ==
    IF mode \in ALIGN_MODES
    THEN IF last_mode \in ALIGN_MODES
         THEN [excursion EXCEPT !.count = 2,
                                !.movBand = @ \/ Touches(mode, "band"),
                                !.movSlit = @ \/ Touches(mode, "slit-in")]
         ELSE [phase |-> "in",
               movBand |-> Touches(mode, "band"),
               movSlit |-> Touches(mode, "slit-in"),
               fromMode |-> last_mode # "None",
               band |-> PositionOr("filter", "band"),
               slit |-> PositionOr("spectrograph", "slit-in"),
               capBand |-> Captures(mode, "filter", "band"),
               capSlit |-> Captures(mode, "spectrograph", "slit-in"),
               count |-> 1]
    ELSE IF last_mode \in ALIGN_MODES
         THEN [excursion EXCEPT !.phase = "left"]
         ELSE NoExcursion

(***************************************************************************)
(* setPath                                                                 *)
(***************************************************************************)
\* history: the grating in use when the mode asks the spectrograph for the mirror
PremirrorAfter(mode) ==
    IF /\ "spectrograph" \in Found(mode)
       /\ "grating" \in DOMAIN ModeConf(mode)["spectrograph"] \cap DOMAIN axes["spectrograph"]
       /\ ModeConf(mode)["spectrograph"]["grating"] = "mirror"
       /\ ValueAt(axes["spectrograph"]["grating"].choices,
                  position["spectrograph"]["grating"]) # "mirror"
    THEN position["spectrograph"]["grating"]
    ELSE premirror

ModeNames == DOMAIN SPARC_MODES \cup DOMAIN SPARC2_MODES \cup {"ErrorMode"}

\* path.py 201-202: raise ValueError("Mode '%s' does not exist")
SetPathInvalid(mode) ==
    /\ pc = "idle"
    /\ ~ModeExists(mode)
    /\ known_comps' = AfterInvalid(mode).known_comps
    /\ stored' = AfterInvalid(mode).stored
    /\ last_mode' = AfterInvalid(mode).last_mode
    /\ raised' = [exc |-> "InvalidMode", mode |-> mode]
    /\ pc' = "raised"
    /\ UNCHANGED <<hardware, tables, position, fmoves, orphans, guess, failures, result,
                   excursion, premirror>>

\* path.py 204-259, 325-333: findNonMirror raises ValueError in the loop; the
\* actuators in `done` came before it in modeconf.items(), and their moves stay
\* in flight with nobody waiting for them
SetPathRaise(mode) ==
    /\ pc = "idle"
    /\ ModeExists(mode)
    /\ Raisers(mode) # {}
    /\ \E done \in SUBSET (Found(mode) \ Raisers(mode)) :
         /\ Len(orphans) + Cardinality(done) <= MaxOrphans
         /\ LET roles == SelectSeq(ItemsOrder, LAMBDA r : r \in done) IN
            orphans' = orphans \o
                [i \in DOMAIN roles |-> Pending(roles[i], MoveOf(roles[i], ModeConf(mode)))]
         /\ stored' = StoredAfter(mode, done)
         /\ known_comps' = known_comps \cup done \cup Raisers(mode)
    /\ raised' = [exc |-> "NoNonMirrorGrating", mode |-> mode]
    /\ pc' = "raised"
    /\ result' = NoCall
    /\ UNCHANGED <<hardware, tables, position, last_mode, fmoves, guess, failures,
                   excursion, premirror>>

\* the slit width someone else sets
ExternalSlit == "200e-6"

\* between two calls, an alignment excursion just over, the input slit of the
\* spectrograph is set by someone else
ExternalMove ==
    /\ pc = "idle"
    /\ orphans = <<>>
    /\ excursion.phase = "left"
    /\ "spectrograph" \in DOMAIN axes
    /\ "slit-in" \in DOMAIN axes["spectrograph"]
    /\ position["spectrograph"]["slit-in"] # ExternalSlit
    /\ position' = [position EXCEPT !["spectrograph"]["slit-in"] = ExternalSlit]
    /\ UNCHANGED <<hardware, tables, known_comps, stored, last_mode, fmoves, orphans, pc,
                   raised, guess, failures, result, excursion, premirror>>

\* the caller has the exception of setPath
Caught ==
    /\ pc = "raised"
    /\ pc' = "idle"
    /\ raised' = NoRaise
    /\ UNCHANGED <<hardware, tables, position, known_comps, stored, last_mode, fmoves,
                   orphans, guess, failures, result, excursion,
                   premirror>>

\* path.py 204-290: every move of the mode and every restoring move is issued,
\* _last_mode is set, and the thread goes on to wait
SetPathIssue(mode) ==
    /\ pc = "idle"
    /\ ModeExists(mode)
    /\ Raisers(mode) = {}
    /\ LET st == StoredAfter(mode, Found(mode)) IN
         /\ fmoves' = ModeMoves(mode) \o RestoreMoves(mode, st)
         /\ stored' = st
         /\ known_comps' = known_comps \cup Found(mode) \cup RestoreFound(mode, st)
    /\ last_mode' = mode
    /\ pc' = "waiting"
    /\ excursion' = ExcursionAfter(mode)
    /\ premirror' = PremirrorAfter(mode)
    /\ UNCHANGED <<hardware, tables, position, orphans, raised, guess, failures, result>>

(***************************************************************************)
(* The actuators.  A move is executed by its actuator some time after it   *)
(* was issued; an actuator executes its moves one at a time, in the order  *)
(* they were issued.  The future of a move resolves, and the position      *)
(* changes, or it fails with IOError and the position stays.               *)
(***************************************************************************)
\* the actuator can go there: its own axes, and a key of a discrete axis
Acceptable(comp, mv) ==
    \A a \in DOMAIN mv :
        /\ a \in DOMAIN axes[comp]
        /\ axes[comp][a].hasChoices => mv[a] \in Keys(axes[comp][a].choices)

\* move i of fmoves is the next one its actuator executes
NextOfActuator(i) ==
    /\ fmoves[i].st = "pending"
    /\ \A j \in DOMAIN orphans : orphans[j].comp # fmoves[i].comp
    /\ \A j \in 1..(i - 1) : ~(fmoves[j].comp = fmoves[i].comp /\ fmoves[j].st = "pending")

NextOrphan(i) == \A j \in 1..(i - 1) : orphans[j].comp # orphans[i].comp

Moved(comp, mv) == [position EXCEPT ![comp] = mv @@ @]

Without(seq, i) == [j \in 1..(Len(seq) - 1) |-> IF j < i THEN seq[j] ELSE seq[j + 1]]

MoveDone(i) ==
    /\ NextOfActuator(i)
    /\ Acceptable(fmoves[i].comp, fmoves[i].mv)
    /\ position' = Moved(fmoves[i].comp, fmoves[i].mv)
    /\ fmoves' = [fmoves EXCEPT ![i].st = "done"]
    /\ UNCHANGED <<hardware, tables, known_comps, stored, last_mode, orphans, pc,
                   raised, guess, failures, result, excursion,
                   premirror>>

MoveFail(i) ==
    /\ NextOfActuator(i)
    /\ IF Acceptable(fmoves[i].comp, fmoves[i].mv)
       THEN failures < MaxFailures /\ failures' = failures + 1
       ELSE UNCHANGED failures
    /\ fmoves' = [fmoves EXCEPT ![i].st = "failed"]
    /\ UNCHANGED <<hardware, tables, position, known_comps, stored, last_mode, orphans, pc, raised, guess, result, excursion,
                   premirror>>

OrphanDone(i) ==
    /\ NextOrphan(i)
    /\ Acceptable(orphans[i].comp, orphans[i].mv)
    /\ position' = Moved(orphans[i].comp, orphans[i].mv)
    /\ orphans' = Without(orphans, i)
    /\ UNCHANGED <<hardware, tables, known_comps, stored, last_mode, fmoves, pc,
                   raised, guess, failures, result, excursion,
                   premirror>>

OrphanFail(i) ==
    /\ NextOrphan(i)
    /\ IF Acceptable(orphans[i].comp, orphans[i].mv)
       THEN failures < MaxFailures /\ failures' = failures + 1
       ELSE UNCHANGED failures
    /\ orphans' = Without(orphans, i)
    /\ UNCHANGED <<hardware, tables, position, known_comps, stored, last_mode, fmoves, pc, raised, guess, result, excursion,
                   premirror>>

AllDone == \A i \in DOMAIN fmoves : fmoves[i].st = "done"

\* path.py 292-297: f.result() has returned, or raised an IOError that was logged,
\* for every future of fmoves in turn: setPath returns
ReturnOnFailure ==
    /\ pc = "waiting"
    /\ \/ \A i \in DOMAIN fmoves : fmoves[i].st # "pending"
       \/ \E i \in DOMAIN fmoves : fmoves[i].st = "failed"
    /\ pc' = "idle"
    /\ fmoves' = <<>>
    /\ result' = [mode |-> last_mode, allok |-> AllDone, position |-> position]
    /\ UNCHANGED <<hardware, tables, position, known_comps, stored, last_mode, orphans,
                   raised, guess, failures, excursion,
                   premirror>>

ReturnIfAllDone ==
    /\ pc = "waiting"
    /\ AllDone
    /\ pc' = "idle"
    /\ fmoves' = <<>>
    /\ result' = [mode |-> last_mode, allok |-> AllDone, position |-> position]
    /\ UNCHANGED <<hardware, tables, position, known_comps, stored, last_mode, orphans,
                   raised, guess, failures, excursion,
                   premirror>>

ReturnThenRestore ==
    /\ pc = "waiting"
    /\ \A i \in DOMAIN fmoves : fmoves[i].st # "pending"
    /\ IF /\ stored["band"] # Absent
          /\ GetComponent("filter")
          /\ \A i \in DOMAIN fmoves : fmoves[i].mv # ("band" :> stored["band"])
       THEN /\ fmoves' = Append(fmoves, Pending("filter", "band" :> stored["band"]))
            /\ UNCHANGED <<pc, result>>
       ELSE /\ pc' = "idle"
            /\ fmoves' = <<>>
            /\ result' = [mode |-> last_mode, allok |-> AllDone, position |-> position]
    /\ UNCHANGED <<hardware, tables, position, known_comps, stored, last_mode, orphans,
                   raised, guess, failures, excursion,
                   premirror>>

ReturnNoWait ==
    /\ pc = "waiting"
    /\ pc' = "idle"
    /\ fmoves' = <<>>
    /\ result' = [mode |-> last_mode, allok |-> AllDone, position |-> position]
    /\ UNCHANGED <<hardware, tables, position, known_comps, stored, last_mode, orphans,
                   raised, guess, failures, excursion,
                   premirror>>

Return ==
    /\ pc = "waiting"
    /\ \A i \in DOMAIN fmoves : fmoves[i].st # "pending"
    /\ pc' = "idle"
    /\ fmoves' = <<>>
    /\ result' = [mode |-> last_mode, allok |-> AllDone, position |-> position]
    /\ UNCHANGED <<hardware, tables, position, known_comps, stored, last_mode, orphans,
                   raised, guess, failures, excursion,
                   premirror>>

(***************************************************************************)
(* guessMode, path.py 299-323                                              *)
(***************************************************************************)
StreamDetectors == {"ccd", "spectrometer", "se-detector"}

RECURSIVE SeqsUpTo(_, _)
SeqsUpTo(S, n) ==
    IF n = 0 THEN {<<>>}
    ELSE LET shorter == SeqsUpTo(S, n - 1) IN
         shorter \cup {Append(q, x) : q \in shorter, x \in S}

\* what guessMode may be given: something that is no stream, a stream with one
\* detector, a MultipleDetectorStream with its sub-streams' detectors in order
Streams ==
    {[isStream |-> FALSE, multi |-> FALSE, dets |-> <<>>]} \cup
    {[isStream |-> TRUE, multi |-> FALSE, dets |-> <<d>>] : d \in StreamDetectors} \cup
    {[isStream |-> TRUE, multi |-> TRUE, dets |-> q] : q \in SeqsUpTo(StreamDetectors, MaxStreams)}

\* path.py 313-314, 317-318: the modes of self.guessed whose detector is `role`
GuessedForAny(role) == guessed

GuessedFor(role) == {m \in guessed : StaticTable(microscope)[m].det = role}

\* path.py 312-315: the first sub-stream with a mode decides
FirstGuessableLast(dets) ==
    LET S == {i \in DOMAIN dets : GuessedFor(dets[i]) # {}} IN
    IF S = {} THEN 0 ELSE CHOOSE i \in S : \A j \in S : j <= i

FirstGuessableHead(dets) ==
    IF dets # <<>> /\ GuessedFor(dets[1]) # {} THEN 1 ELSE 0

FirstGuessable(dets) ==
    LET S == {i \in DOMAIN dets : GuessedFor(dets[i]) # {}} IN
    IF S = {} THEN 0 ELSE Lowest(S)

\* path.py 310-323: the outcomes of guessMode; where several modes of
\* self.guessed match, items() decides which comes first
GuessOutcomesAnyObject(stream) ==
    LET i == FirstGuessable(stream.dets) IN
    IF i = 0 THEN {[exc |-> "LookupError", ret |-> ""]}
    ELSE {[exc |-> "none", ret |-> m] : m \in GuessedFor(stream.dets[i])}

GuessOutcomes(stream) ==
    IF ~stream.isStream THEN {[exc |-> "IOError", ret |-> ""]}
    ELSE LET i == FirstGuessable(stream.dets) IN
         IF i = 0 THEN {[exc |-> "LookupError", ret |-> ""]}
         ELSE {[exc |-> "none", ret |-> m] : m \in GuessedFor(stream.dets[i])}

\* path.py 299-323: guessMode is called and has its outcome
GuessModePruning(stream) ==
    /\ pc = "idle"
    /\ \E o \in GuessOutcomes(stream) :
         /\ guess' = [called |-> TRUE, stream |-> stream, exc |-> o.exc, ret |-> o.ret]
         /\ guessed' = guessed \ {o.ret}
    /\ pc' = "guessed"
    /\ UNCHANGED <<hardware, modes, position, known_comps, stored, last_mode, fmoves,
                   orphans, raised, failures, result, excursion,
                   premirror>>

GuessMode(stream) ==
    /\ pc = "idle"
    /\ \E o \in GuessOutcomes(stream) :
         guess' = [called |-> TRUE, stream |-> stream, exc |-> o.exc, ret |-> o.ret]
    /\ pc' = "guessed"
    /\ UNCHANGED <<hardware, tables, position, known_comps, stored, last_mode, fmoves,
                   orphans, raised, failures, result, excursion,
                   premirror>>

\* the caller has the mode, or the exception
GuessReturn ==
    /\ pc = "guessed"
    /\ pc' = "idle"
    /\ guess' = NoGuess
    /\ UNCHANGED <<hardware, tables, position, known_comps, stored, last_mode, fmoves,
                   orphans, raised, failures, result, excursion,
                   premirror>>

Next ==
    \/ \E mode \in ModeNames : SetPathInvalid(mode)
    \/ \E mode \in ModeNames : SetPathRaise(mode)
    \/ \E mode \in ModeNames : SetPathIssue(mode)
    \/ \E i \in DOMAIN fmoves : MoveDone(i)
    \/ \E i \in DOMAIN fmoves : MoveFail(i)
    \/ \E i \in DOMAIN orphans : OrphanDone(i)
    \/ \E i \in DOMAIN orphans : OrphanFail(i)
    \/ Caught
    \/ Return
    \/ \E stream \in Streams : GuessMode(stream)
    \/ GuessReturn

Spec == Init /\ [][Next]_vars

\* a microscope with every detector: every mode of its table is supported
InitAllDetectors == Init /\ Detectors \subseteq registry

\* the calls of setPath that go on to wait, with actuators that resolve every
\* future, by success or failure, and a control thread that goes on when the
\* future it waits for is resolved (path.py 292-297)
NextCall ==
    \/ \E mode \in ModeNames : SetPathIssue(mode)
    \/ \E i \in DOMAIN fmoves : MoveDone(i)
    \/ \E i \in DOMAIN fmoves : MoveFail(i)
    \/ Return

SpecCall ==
    /\ InitAllDetectors
    /\ [][NextCall]_vars
    /\ WF_vars(\E i \in DOMAIN fmoves : MoveDone(i) \/ MoveFail(i))
    /\ WF_vars(Return)

\* the manager on hardware that someone else drives as well
NextExternal == Next \/ ExternalMove

SpecExternal == Init /\ [][NextExternal]_vars

(***************************************************************************)
(* Properties                                                              *)
(***************************************************************************)
Table == IF microscope = "sparc2" THEN SPARC2_MODES ELSE SPARC_MODES

C2_InvalidNoEffect ==
    [][(pc = "idle" /\ pc' = "raised" /\ raised'.exc = "InvalidMode")
        => UNCHANGED <<known_comps, stored, last_mode, position, fmoves, orphans>>]_vars

\* InvalidMode is raised by a manager that has a previous mode and a stored band
C2_Witness ==
    /\ pc = "raised"
    /\ raised.exc = "InvalidMode"
    /\ last_mode \in ALIGN_MODES
    /\ stored["band"] # Absent

\* C3: on any hardware, the working table holds exactly the modes of the static
\* table of the microscope role whose detector is a component of the microscope;
\* with a spectrometer as the only detector of a legacy SPARC that is spectral
\* (and fiber-align), and ar, cli, monochromator and mirror-align are refused.
C3_WorkingTable ==
    /\ modes = {m \in DOMAIN Table : Table[m].det \in registry}
    /\ (microscope = "sparc" /\ registry \cap Detectors = {"spectrometer"})
         => /\ modes \cap {"ar", "cli", "monochromator", "mirror-align", "spectral"}
                 = {"spectral"}
            /\ pc = "waiting" => last_mode \notin {"ar", "cli", "monochromator", "mirror-align"}

\* with only a spectrometer, ar is refused after spectral was set
C3_Witness ==
    /\ microscope = "sparc"
    /\ registry \cap Detectors = {"spectrometer"}
    /\ last_mode = "spectral"
    /\ pc = "raised"
    /\ raised = [exc |-> "InvalidMode", mode |-> "ar"]

\* what actuator `comp` holds on `axis` is what `target` stands for: on the
\* grating axis a grating that is no mirror (the stored one if there is one, else
\* the first of the choices), the mirror, or zero order where there is no mirror;
\* on a discrete axis the key of a choice of that value; else the value itself
Holds(comp, axis, target) ==
    LET choices == axes[comp][axis].choices
        here == position[comp][axis]
        values == {choices[i][2] : i \in DOMAIN choices}
    IN  IF axis = "grating" /\ target = GRATING_NOT_MIRROR
        THEN /\ ValueAt(choices, here) # "mirror"
             /\ IF stored["grating"] # Absent THEN here = stored["grating"]
                ELSE \E i \in DOMAIN choices :
                        /\ choices[i][1] = here
                        /\ \A j \in 1..(i - 1) : choices[j][2] = "mirror"
        ELSE IF axis = "grating" /\ target \notin values
        THEN "wavelength" \in DOMAIN axes[comp] /\ position[comp]["wavelength"] = "0"
        ELSE IF axes[comp][axis].hasChoices /\ target \in values
        THEN ValueAt(choices, here) = target
        ELSE here = target

\* C4: after setPath(m) has returned for a non-alignment mode m with every move
\* succeeding, every actuator of m that is found holds, on each axis of m it has,
\* the value the target resolved to.
C4_PositionsReached ==
    (pc = "idle" /\ result.allok /\ result.mode \notin ALIGN_MODES)
    => \A comp \in DOMAIN Table[result.mode].conf \cap registry :
         \A axis \in DOMAIN Table[result.mode].conf[comp] \cap DOMAIN axes[comp] :
            Holds(comp, axis, Table[result.mode].conf[comp][axis])

\* a spectral mode has returned on a SPARC2 and left the mirror for a grating
C4_Witness ==
    /\ pc = "idle"
    /\ result.allok
    /\ result.mode = "spectral-integrated"
    /\ axes = Sparc2Mirror.axes
    /\ position["spectrograph"]["grating"] = "g3"
    /\ position["lens-switch"]["x"] = "p1"

\* C5: once an alignment excursion is over (the alignment set was entered from a
\* mode outside it, and setPath has returned for a mode outside it, its moves
\* succeeding), band and slit-in are back at the values they had on entry,
\* whenever the entering call captured them.
C5_RestoredAfterAlign ==
    (pc = "idle" /\ excursion.phase = "left" /\ result.allok /\ result.mode = last_mode)
    => /\ excursion.capBand => PositionOr("filter", "band") = excursion.band
       /\ excursion.capSlit => PositionOr("spectrograph", "slit-in") = excursion.slit

\* fiber-align was entered from a mode and left: band and slit-in, both captured,
\* are where they were
C5_Witness ==
    /\ pc = "idle"
    /\ excursion.phase = "left"
    /\ excursion.fromMode
    /\ excursion.count = 1
    /\ result.allok
    /\ excursion.capBand /\ excursion.capSlit
    /\ position["filter"]["band"] = "b1"
    /\ position["spectrograph"]["slit-in"] = "100e-6"
    /\ stored["slit-in"] = "100e-6"

\* C6 (as claimed): after any excursion through one or more alignment modes, no
\* move having failed, band and slit-in are back at the values they had before
\* the first alignment mode.
C6_ExcursionRestoresAll ==
    (pc = "idle" /\ excursion.phase = "left" /\ excursion.fromMode
        /\ failures = 0 /\ result.mode = last_mode)
    => /\ PositionOr("filter", "band") = excursion.band
       /\ PositionOr("spectrograph", "slit-in") = excursion.slit

\* C7: setPath(m) twice in a row, the moves of both calls succeeding: when the
\* second call is about to return, every axis is where the first call left it.
C7_Idempotent ==
    (pc = "waiting" /\ AllDone /\ result.allok /\ result.mode = last_mode)
    => position = result.position

\* the second call of a mode that left the alignment set is about to return,
\* and the first had restored the band
C7_Witness ==
    /\ pc = "waiting"
    /\ AllDone
    /\ fmoves # <<>>
    /\ result.allok
    /\ result.mode = last_mode
    /\ excursion.phase = "out"
    /\ last_mode = "spectral"
    /\ stored["band"] = "b1"
    /\ position["filter"]["band"] = "b1"

\* C8: guessMode never returns a mode of the alignment set, and the guess table
\* holds none, on any hardware and after any calls of setPath.
C8_NeverGuessAlign ==
    /\ guessed \cap ALIGN_MODES = {}
    /\ (pc = "guessed" /\ guess.exc = "none") => guess.ret \notin ALIGN_MODES

\* a CCD stream is guessed as ar while the manager is in mirror-align
C8_Witness ==
    /\ pc = "guessed"
    /\ guess.stream.dets = <<"ccd">>
    /\ guess.ret = "ar"
    /\ last_mode = "mirror-align"

\* the sub-streams whose detector is the detector of a mode of the guess table
Guessable(dets) == {i \in DOMAIN dets : \E m \in guessed : Table[m].det = dets[i]}

\* C9: on a MultipleDetectorStream guessMode returns a mode of the guess table
\* whose detector is that of the first sub-stream, in order, whose detector is in
\* the guess table; the sub-streams before it are skipped and cause no failure.
C9_FirstSubStream ==
    (pc = "guessed" /\ guess.stream.isStream /\ guess.stream.multi
        /\ Guessable(guess.stream.dets) # {})
    => /\ guess.exc = "none"
       /\ guess.ret \in guessed
       /\ \E i \in Guessable(guess.stream.dets) :
            /\ \A j \in Guessable(guess.stream.dets) : i <= j
            /\ Table[guess.ret].det = guess.stream.dets[i]

\* the SEM stream comes first and is skipped
C9_Witness ==
    /\ pc = "guessed"
    /\ guess.stream.multi
    /\ guess.stream.dets = <<"se-detector", "spectrometer">>
    /\ guess.ret = "spectral"

\* C10: on a stream with one detector guessMode returns a mode of the guess table
\* whose detector is the detector of the stream; a spectrometer stream is
\* spectral on the legacy table.
C10_SimpleStream ==
    (pc = "guessed" /\ guess.stream.isStream /\ ~guess.stream.multi)
    => /\ guess.exc = "none" => /\ guess.ret \in guessed
                                /\ Table[guess.ret].det = guess.stream.dets[1]
       /\ (microscope = "sparc" /\ guess.stream.dets = <<"spectrometer">>)
            => guess.exc = "none" /\ guess.ret = "spectral"

\* a spectrometer stream is guessed as the dedicated spectral mode of a SPARC2
C10_Witness ==
    /\ pc = "guessed"
    /\ ~guess.stream.multi
    /\ guess.stream.dets = <<"spectrometer">>
    /\ guess.ret = "spectral-dedicated"

\* C11: guessMode raises LookupError (no mode can be inferred) exactly when it is
\* given a stream and neither its detector nor the detector of any of its
\* sub-streams is the detector of a mode of the guess table.
C11_NoModeInferredIff ==
    pc = "guessed"
    => (guess.exc = "LookupError"
        <=> /\ guess.stream.isStream
            /\ \A i \in DOMAIN guess.stream.dets :
                 \A m \in guessed : Table[m].det # guess.stream.dets[i])

\* a stream of two SEM sub-streams, after a mode was set: no mode is inferred
C11_Witness ==
    /\ pc = "guessed"
    /\ guess.stream.multi
    /\ guess.stream.dets = <<"se-detector", "se-detector">>
    /\ guess.exc = "LookupError"
    /\ last_mode \in modes

\* C12: given something that is no stream, guessMode raises IOError and returns
\* no mode.
C12_NotAStream ==
    (pc = "guessed" /\ ~guess.stream.isStream)
    => guess.exc = "IOError" /\ guess.ret \notin ModeNames

\* guessMode was given something that is no stream, on a manager with modes to guess
C12_Witness ==
    /\ pc = "guessed"
    /\ ~guess.stream.isStream
    /\ guess.exc = "IOError"
    /\ guessed # {}
    /\ last_mode \in ALIGN_MODES

SpectralVariants == {"spectral-integrated", "spectral-dedicated"}

GratingTarget(mode, target) ==
    /\ mode \in DOMAIN Table
    /\ "spectrograph" \in DOMAIN Table[mode].conf
    /\ "grating" \in DOMAIN Table[mode].conf["spectrograph"]
    /\ Table[mode].conf["spectrograph"]["grating"] = target

\* the microscope has a spectrograph with a grating axis
HasGrating == "spectrograph" \in registry /\ "grating" \in DOMAIN axes["spectrograph"]

Gratings == axes["spectrograph"]["grating"].choices

C14_SentinelResolution ==
    [][/\ (pc = "idle" /\ pc' = "waiting" /\ GratingTarget(last_mode', GRATING_NOT_MIRROR)
            /\ HasGrating)
          => \E i \in DOMAIN fmoves' :
                /\ fmoves'[i].comp = "spectrograph"
                /\ "grating" \in DOMAIN fmoves'[i].mv
                /\ IF stored["grating"] # Absent
                   THEN fmoves'[i].mv["grating"] = stored["grating"]
                   ELSE \E k \in DOMAIN Gratings :
                          /\ Gratings[k][1] = fmoves'[i].mv["grating"]
                          /\ Gratings[k][2] # "mirror"
                          /\ \A j \in 1..(k - 1) : Gratings[j][2] = "mirror"
       /\ findNonMirror(<<<<"g1", "600gmm">>, <<"g2", "mirror">>>>).key = "g1"]_vars

\* nothing stored, the spectrograph on its third grating: the move went to the first
C14_Witness ==
    /\ pc = "waiting"
    /\ last_mode = "spectral-integrated"
    /\ stored["grating"] = Absent
    /\ axes = Sparc2Mirror.axes
    /\ \E i \in DOMAIN fmoves : /\ fmoves[i].comp = "spectrograph"
                                /\ fmoves[i].st = "done"
                                /\ fmoves[i].mv["grating"] = "g1"
    /\ position["spectrograph"]["grating"] = "g1"

\* C15: a mode asks for the grating "mirror" and no choice of the grating axis
\* has the value "mirror": the move of the spectrograph sets wavelength to 0 and
\* does not touch the grating axis.
C15_ZeroOrder ==
    (pc = "waiting" /\ GratingTarget(last_mode, "mirror") /\ HasGrating
        /\ \A k \in DOMAIN Gratings : Gratings[k][2] # "mirror")
    => /\ \E i \in DOMAIN fmoves :
            /\ fmoves[i].comp = "spectrograph"
            /\ "wavelength" \in DOMAIN fmoves[i].mv
            /\ fmoves[i].mv["wavelength"] = "0"
       /\ \A i \in DOMAIN fmoves :
            fmoves[i].comp = "spectrograph" => "grating" \notin DOMAIN fmoves[i].mv

\* ar on a spectrograph without mirror: zero order reached, the grating as it was
C15_Witness ==
    /\ pc = "waiting"
    /\ last_mode = "ar"
    /\ axes = Sparc2NoMirror.axes
    /\ position["spectrograph"]["wavelength"] = "0"
    /\ position["spectrograph"]["grating"] = "g2"

\* choice tables of a grating axis, the empty one included
GratingTables ==
    {<<>>, <<<<"g1", "mirror">>>>, <<<<"g1", "600gmm">>>>,
     <<<<"g1", "mirror">>, <<"g2", "mirror">>>>, <<<<"g1", "mirror">>, <<"g2", "600gmm">>>>,
     <<<<"g1", "600gmm">>, <<"g2", "mirror">>>>, <<<<"g1", "600gmm">>, <<"g2", "1200gmm">>>>}

\* C16: setPath raises the ValueError of findNonMirror exactly when the grating
\* target is GRATING_NOT_MIRROR, _stored holds no grating and every choice of the
\* grating axis is the mirror (or there is none); otherwise findNonMirror returns
\* a key whose value is not "mirror", as it does on each of GratingTables.
C16_NoNonMirrorIff ==
    /\ (pc = "raised" /\ raised.exc = "NoNonMirrorGrating")
       => /\ GratingTarget(raised.mode, GRATING_NOT_MIRROR)
          /\ HasGrating
          /\ stored["grating"] = Absent
          /\ \A k \in DOMAIN Gratings : Gratings[k][2] = "mirror"
    /\ (pc = "waiting" /\ GratingTarget(last_mode, GRATING_NOT_MIRROR) /\ HasGrating)
       => \/ stored["grating"] # Absent
          \/ \E k \in DOMAIN Gratings : Gratings[k][2] # "mirror"
    /\ pc = "raised"
       => \A ch \in GratingTables :
             /\ findNonMirror(ch).found <=> \E k \in DOMAIN ch : ch[k][2] # "mirror"
             /\ findNonMirror(ch).found => ValueAt(ch, findNonMirror(ch).key) # "mirror"

\* a spectral mode is refused on a spectrograph with a mirror only, after ar was set
C16_Witness ==
    /\ pc = "raised"
    /\ raised = [exc |-> "NoNonMirrorGrating", mode |-> "spectral-integrated"]
    /\ axes = Sparc2OnlyMirror.axes
    /\ last_mode = "ar"

\* C17: the IOError of a failed move leaves setPath: nothing is raised while it
\* waits, and when a move of the call has failed the call returns only once no
\* move of the call is pending, normally, _last_mode being the mode requested.
C17_FailureNotPropagated ==
    [][/\ pc = "waiting" => pc' \in {"waiting", "idle"}
       /\ (pc = "waiting" /\ pc' = "idle" /\ \E i \in DOMAIN fmoves : fmoves[i].st = "failed")
          => /\ \A i \in DOMAIN fmoves : fmoves[i].st # "pending"
             /\ raised' = NoRaise
             /\ last_mode' = last_mode
             /\ result'.mode = last_mode]_vars

\* a move the actuator accepts has failed, a move issued after it has succeeded,
\* and setPath is about to return
C17_Witness ==
    /\ pc = "waiting"
    /\ \A i \in DOMAIN fmoves : fmoves[i].st # "pending"
    /\ \E i, j \in DOMAIN fmoves :
          /\ i < j
          /\ fmoves[i].st = "failed"
          /\ Acceptable(fmoves[i].comp, fmoves[i].mv)
          /\ fmoves[j].st = "done"

\* C18: when setPath returns, every move issued by the call, the moves of the
\* mode and the restoring moves, has succeeded or failed: none is pending.
C18_AllResolvedAtReturn ==
    [][(pc = "waiting" /\ pc' = "idle")
        => \A i \in DOMAIN fmoves : fmoves[i].st \in {"done", "failed"}]_vars

\* setPath is about to return from a call that left fiber-align: the moves of the
\* mode and the two restoring moves are all resolved
C18_Witness ==
    /\ pc = "waiting"
    /\ excursion.phase = "left"
    /\ Len(fmoves) >= 3
    /\ fmoves[Len(fmoves) - 1].mv = ("band" :> "b1")
    /\ fmoves[Len(fmoves)].mv = ("slit-in" :> "100e-6")
    /\ \A i \in DOMAIN fmoves : fmoves[i].st \in {"done", "failed"}

\* C19: an actuator of the mode that is not found is skipped: setPath raises no
\* LookupError, and once the moves of a mode are issued every actuator of the
\* mode that is found has its move and no missing one has.
C19_MissingSkipped ==
    /\ pc = "raised" => raised.exc \in {"InvalidMode", "NoNonMirrorGrating"}
    /\ pc = "waiting"
       => \A r \in DOMAIN Table[last_mode].conf :
             IF r \in registry THEN \E i \in DOMAIN fmoves : fmoves[i].comp = r
             ELSE \A i \in DOMAIN fmoves : fmoves[i].comp # r

\* a mode with a missing actuator was set, and the actuators found have moved
C19_Witness ==
    /\ pc = "waiting"
    /\ \E r \in DOMAIN Table[last_mode].conf : r \notin registry
    /\ Len(fmoves) >= 2
    /\ AllDone

\* the actuators of the mode that the microscope has
FoundRoles(mode) == DOMAIN Table[mode].conf \cap registry

\* the moves of the mode come first in fmoves, the restoring moves after them
NModeMoves == Cardinality(FoundRoles(last_mode))

\* C21: every move of a call, of the mode or restoring, is issued before the call
\* waits for any: the moves are all issued in the step that starts the wait,
\* none of them waited for yet, and no move is added while the call waits.
C21_IssueBeforeWait ==
    [][/\ (pc = "idle" /\ pc' = "waiting")
          => \A i \in DOMAIN fmoves' : fmoves'[i].st = "pending"
       /\ (pc = "waiting" /\ pc' = "waiting")
          => /\ Len(fmoves') = Len(fmoves)
             /\ \A i \in DOMAIN fmoves :
                   fmoves'[i].comp = fmoves[i].comp /\ fmoves'[i].mv = fmoves[i].mv]_vars

\* a move of the mode has succeeded while the restoring move of slit-in, issued
\* with it, is still to be executed
C21_Witness ==
    /\ pc = "waiting"
    /\ excursion.phase = "left"
    /\ fmoves[1].st = "done"
    /\ fmoves[Len(fmoves)].mv = ("slit-in" :> "100e-6")
    /\ fmoves[Len(fmoves)].st = "pending"

\* the axes the move of actuator `comp` carries for the targets `conf`: the
\* targets on axes the actuator has, but no band without a choice of that value,
\* and wavelength in the place of a mirror that is no choice
ExpectedAxes(comp, conf) ==
    LET has == DOMAIN conf \cap DOMAIN axes[comp]
        values(a) == {axes[comp][a].choices[k][2] : k \in DOMAIN axes[comp][a].choices}
        nomatch == {a \in has \cap {"band", "grating"} : conf[a] \notin values(a)}
    IN  (has \ {a \in nomatch : a = "band" \/ conf[a] = "mirror"})
        \cup {a \in {"wavelength"} : "grating" \in nomatch /\ conf["grating"] = "mirror"}

\* C22: the call issues one moveAbs for each actuator of the mode that is found
\* and none for another actuator, and that move carries all the axes of the
\* actuator that the mode sets; what follows in fmoves are restoring moves.
C22_OneMovePerActuator ==
    pc = "waiting"
    => /\ Len(fmoves) >= NModeMoves
       /\ {fmoves[i].comp : i \in 1..NModeMoves} = FoundRoles(last_mode)
       /\ \A i \in 1..NModeMoves :
             DOMAIN fmoves[i].mv = ExpectedAxes(fmoves[i].comp, Table[last_mode].conf[fmoves[i].comp])
       /\ \A i \in (NModeMoves + 1)..Len(fmoves) :
             \/ fmoves[i].comp = "filter" /\ DOMAIN fmoves[i].mv = {"band"}
             \/ fmoves[i].comp = "spectrograph" /\ DOMAIN fmoves[i].mv = {"slit-in"}

\* spec-focus: slit-in and grating of the spectrograph went in one move
C22_Witness ==
    /\ pc = "waiting"
    /\ last_mode = "spec-focus"
    /\ \E i \in DOMAIN fmoves :
          /\ fmoves[i].comp = "spectrograph"
          /\ fmoves[i].mv = (("slit-in" :> "10e-6") @@ ("grating" :> "g2"))
          /\ fmoves[i].st = "done"
    /\ Len(fmoves) = 3

\* C24: while last_mode is an alignment mode no step writes the band or the
\* slit-in entry of _stored, whatever setPath call is made (the same alignment
\* mode again, or another one); a step that writes one of them is a setPath
\* call made with last_mode no alignment mode.
C24_NoSaveInAlign ==
    [][/\ last_mode \in ALIGN_MODES
          => stored'["band"] = stored["band"] /\ stored'["slit-in"] = stored["slit-in"]
       /\ (stored'["band"] # stored["band"] \/ stored'["slit-in"] # stored["slit-in"])
          => pc = "idle" /\ pc' \in {"waiting", "raised"} /\ last_mode \notin ALIGN_MODES]_vars

\* a second alignment call has been made, its moves succeeded, and the band
\* saved at entry is still stored although the filter is elsewhere now
C24_Witness ==
    /\ pc = "idle"
    /\ last_mode \in ALIGN_MODES
    /\ excursion.count = 2
    /\ result.allok
    /\ "filter" \in registry
    /\ stored["band"] # Absent
    /\ stored["band"] # position["filter"]["band"]

\* C25: the call issues a restoring move of band (of slit-in) exactly when the
\* previous mode is an alignment mode, the requested one is none, and _stored
\* holds band (slit-in); the move carries the stored value.  Every other
\* transition issues the moves of the mode only.
C25_RestoreIff ==
    [][(pc = "idle" /\ pc' = "waiting")
       => LET n == Cardinality(FoundRoles(last_mode'))
              extra == {i \in DOMAIN fmoves' : i > n}
              leaving == last_mode \in ALIGN_MODES /\ last_mode' \notin ALIGN_MODES
          IN  /\ \A a \in {"band", "slit-in"} :
                    (\E i \in extra : DOMAIN fmoves'[i].mv = {a})
                    <=> (leaving /\ stored[a] # Absent)
              /\ \A i \in extra : \E a \in {"band", "slit-in"} :
                    fmoves'[i].mv = (a :> stored[a])
              /\ Cardinality(extra) <= 2
              /\ ~leaving => Len(fmoves') = n]_vars

\* a call that leaves alignment restores the band but not slit-in, of which
\* nothing is stored
C25_Witness ==
    /\ pc = "waiting"
    /\ excursion.phase = "left"
    /\ stored["band"] # Absent
    /\ stored["slit-in"] = Absent
    /\ Len(fmoves) = NModeMoves + 1
    /\ fmoves[Len(fmoves)].mv = ("band" :> stored["band"])

C29_UniqueDetector ==
    /\ last_mode = "None"
       => \A m1, m2 \in guessed : Table[m1].det = Table[m2].det => m1 = m2
    /\ (pc = "guessed" /\ guess.exc = "none")
       => \A m \in guessed : Table[m].det = Table[guess.ret].det => m = guess.ret

\* SPARC2 with ccd: ar is guessed for a ccd stream, while mirror-align and
\* spec-focus, which have the same detector, are modes of the working table
C29_Witness ==
    /\ pc = "guessed"
    /\ guess.ret = "ar"
    /\ microscope = "sparc2"
    /\ {"mirror-align", "spec-focus"} \subseteq modes
    /\ Len(guess.stream.dets) = 2

\* C30: no step changes self._modes or self.guessed, and a call of guessMode,
\* from its start to its return, leaves _stored, _last_mode, _known_comps and
\* the positions of the actuators without moves in flight as they are.
C30_TablesFrozen ==
    [][/\ modes' = modes
       /\ guessed' = guessed
       /\ (pc' = "guessed" \/ pc = "guessed")
          => /\ UNCHANGED <<stored, last_mode, known_comps, fmoves, result>>
             /\ orphans = <<>> => position' = position]_vars

\* guessMode has returned a mode after a setPath call with a failed move and
\* with a band stored
C30_Witness ==
    /\ pc = "guessed"
    /\ guess.ret \in guessed
    /\ result.mode # "None"
    /\ ~result.allok
    /\ stored["band"] # Absent

\* the grating a GRATING_NOT_MIRROR target becomes when no stored value is read
FirstNonMirror ==
    LET S == {k \in DOMAIN Gratings : Gratings[k][2] # "mirror"} IN
    IF S = {} THEN Absent ELSE Gratings[Lowest(S)][1]

\* the grating the call's move of the spectrograph carries, Absent if none
GratingMoved(moves) ==
    LET S == {i \in DOMAIN moves :
                 moves[i].comp = "spectrograph" /\ "grating" \in DOMAIN moves[i].mv} IN
    IF S = {} THEN Absent ELSE moves[Lowest(S)].mv["grating"]

\* C26 (as claimed): only a call that leaves the alignment modes reads _stored;
\* the moves of any other call are those it issues with nothing stored: no
\* restoring move, and for GRATING_NOT_MIRROR the first grating that is no mirror.
C26_ReadOnlyWhenLeaving ==
    [][(/\ pc = "idle" /\ pc' = "waiting"
        /\ ~(last_mode \in ALIGN_MODES /\ last_mode' \notin ALIGN_MODES))
       => /\ Len(fmoves') = Cardinality(FoundRoles(last_mode'))
          /\ (GratingTarget(last_mode', GRATING_NOT_MIRROR) /\ HasGrating)
             => GratingMoved(fmoves') = FirstNonMirror]_vars

\* C26 (amended): _stored is written only by a setPath call, band and slit-in
\* when the previous mode is no alignment mode, grating when the call selects the
\* mirror, each with the position of the axis at the call; band and slit-in are
\* read only by a call that leaves the alignment modes, the grating by every call
\* whose grating target is GRATING_NOT_MIRROR, leaving alignment or not.
C26_StoreAccess ==
    [][/\ \A a \in StoredAxes :
             stored'[a] # stored[a]
             => /\ pc = "idle" /\ pc' \in {"waiting", "raised"}
                /\ a \in {"band", "slit-in"} => last_mode \notin ALIGN_MODES
                /\ a = "grating" => pc' = "waiting" /\ GratingTarget(last_mode', "mirror")
                /\ \E r \in registry \cap DOMAIN axes :
                      a \in DOMAIN axes[r] /\ stored'[a] = position[r][a]
       /\ (/\ pc = "idle" /\ pc' = "waiting"
           /\ ~(last_mode \in ALIGN_MODES /\ last_mode' \notin ALIGN_MODES))
          => Len(fmoves') = Cardinality(FoundRoles(last_mode'))
       /\ (pc = "idle" /\ pc' = "waiting" /\ GratingTarget(last_mode', GRATING_NOT_MIRROR)
              /\ HasGrating)
          => GratingMoved(fmoves') =
                IF stored["grating"] # Absent THEN stored["grating"] ELSE FirstNonMirror]_vars

\* from ar, no alignment mode, a spectral mode was set: its move took the stored
\* grating g3, not g1, the first that is no mirror
C26_Witness ==
    /\ pc = "waiting"
    /\ last_mode \in SpectralVariants
    /\ excursion = NoExcursion
    /\ stored["grating"] = "g3"
    /\ GratingMoved(fmoves) = "g3"
    /\ FirstNonMirror = "g1"

\* C23: every axis of every move setPath issues is an axis of the actuator the
\* move goes to, the wavelength axis of the zero order fallback included.
C23_AxesExposed ==
    pc = "waiting"
    => \A i \in DOMAIN fmoves : DOMAIN fmoves[i].mv \subseteq DOMAIN axes[fmoves[i].comp]

\* C27: a mode that asks for the mirror was set while a grating was in use, and
\* then a mode whose grating target is GRATING_NOT_MIRROR, its moves succeeding:
\* the grating is the one that was in use before the mirror, whether or not the
\* spectrograph has a choice "mirror".
C27_PremirrorGratingBack ==
    (pc = "idle" /\ result.allok /\ result.mode = last_mode /\ failures = 0
        /\ GratingTarget(last_mode, GRATING_NOT_MIRROR) /\ HasGrating /\ premirror # Absent)
    => position["spectrograph"]["grating"] = premirror

\* the move of fmoves that goes to actuator `comp` for the mode, 0 if none
ModeMoveTo(moves, comp) ==
    LET S == {i \in DOMAIN moves : moves[i].comp = comp} IN
    IF S = {} THEN 0 ELSE Lowest(S)

\* C32: a mode sets band on a filter that is found.  If a choice of the band axis
\* has the target as its value, the move of the filter carries the key of such a
\* choice; if none has, the move carries no band and _stored["band"] is as it was.
C32_BandByValue ==
    [][(/\ pc = "idle" /\ pc' = "waiting"
        /\ "filter" \in FoundRoles(last_mode')
        /\ "band" \in DOMAIN Table[last_mode'].conf["filter"] \cap DOMAIN axes["filter"])
       => LET target == Table[last_mode'].conf["filter"]["band"]
              choices == axes["filter"]["band"].choices
              mv == fmoves'[ModeMoveTo(fmoves', "filter")].mv
          IN  IF \E k \in DOMAIN choices : choices[k][2] = target
              THEN /\ "band" \in DOMAIN mv
                   /\ \E k \in DOMAIN choices : choices[k] = <<mv["band"], target>>
              ELSE /\ "band" \notin DOMAIN mv
                   /\ stored'["band"] = stored["band"]]_vars

\* a filter wheel without pass-through: the alignment mode was set from no
\* alignment mode, its move of the filter was empty and has succeeded, the band
\* is where it was and nothing is stored
C32_Witness ==
    /\ pc = "waiting"
    /\ last_mode = "mirror-align"
    /\ axes = SparcBare.axes
    /\ fmoves[ModeMoveTo(fmoves, "filter")].mv = <<>>
    /\ fmoves[ModeMoveTo(fmoves, "filter")].st = "done"
    /\ stored["band"] = Absent
    /\ position["filter"]["band"] = "b2"

C34_GuessedIsSupported ==
    (pc = "guessed" /\ guess.exc = "none" /\ Table[guess.ret].det \in registry)
    => guess.ret \in modes /\ ModeExists(guess.ret)

\* the spectrometer is there and the CCD is not: a spectral mode is guessed
\* while ar, which guessMode would return for a ccd stream, is no mode
C34_Witness ==
    /\ pc = "guessed"
    /\ guess.ret \in SpectralVariants
    /\ guess.ret \in modes
    /\ "ar" \in guessed \ modes

\* the modes of a static table that set `axis` on some actuator
Targeting(table, axis) ==
    {m \in DOMAIN table : \E r \in DOMAIN table[m].conf : axis \in DOMAIN table[m].conf[r]}

\* C36: a call made from no alignment mode, or from the initial state, for a mode
\* that is no alignment mode issues no move with band or slit-in, and until it
\* returns band and slit-in stay where they are; in SPARC_MODES and SPARC2_MODES
\* only alignment modes set band or slit-in.
C36_NoBandSlitOutside ==
    [][/\ (pc = "idle" /\ pc' = "waiting" /\ last_mode \notin ALIGN_MODES
             /\ last_mode' \notin ALIGN_MODES)
          => /\ \A i \in DOMAIN fmoves' : DOMAIN fmoves'[i].mv \cap {"band", "slit-in"} = {}
             /\ \A t \in {SPARC_MODES, SPARC2_MODES} :
                   Targeting(t, "band") \cup Targeting(t, "slit-in") \subseteq ALIGN_MODES
       /\ (pc = "waiting" /\ last_mode \notin ALIGN_MODES /\ excursion.phase = "out")
          => /\ PositionOr("filter", "band")' = PositionOr("filter", "band")
             /\ PositionOr("spectrograph", "slit-in")' = PositionOr("spectrograph", "slit-in")]_vars

\* long after an alignment, with its band still stored and the filter elsewhere,
\* a call from no alignment mode to another has returned, all its moves done
C36_Witness ==
    /\ pc = "idle"
    /\ result.allok
    /\ result.mode = last_mode
    /\ last_mode \notin ALIGN_MODES
    /\ excursion = NoExcursion
    /\ stored["band"] # Absent
    /\ PositionOr("filter", "band") # stored["band"]

\* C38: a grating in _stored is a key of the choices of the spectrograph's grating
\* axis, and its value is not "mirror"; the move a GRATING_NOT_MIRROR target gets
\* from it does not go to the mirror.
C38_StoredGratingNotMirror ==
    /\ stored["grating"] # Absent
       => /\ HasGrating
          /\ stored["grating"] \in Keys(Gratings)
          /\ ValueAt(Gratings, stored["grating"]) # "mirror"
    /\ (pc = "waiting" /\ GratingTarget(last_mode, GRATING_NOT_MIRROR) /\ HasGrating)
       => /\ GratingMoved(fmoves) \in Keys(Gratings)
          /\ ValueAt(Gratings, GratingMoved(fmoves)) # "mirror"

\* the grating is on the mirror, g1 is stored, and a spectral mode has issued
\* its move to g1
C38_Witness ==
    /\ pc = "waiting"
    /\ last_mode \in SpectralVariants
    /\ stored["grating"] = "g1"
    /\ position["spectrograph"]["grating"] = "g2"
    /\ ValueAt(Gratings, "g2") = "mirror"
    /\ GratingMoved(fmoves) = "g1"

\* the mode asks for the mirror and the spectrograph has a grating axis without it
ZeroOrder(mode) ==
    /\ GratingTarget(mode, "mirror")
    /\ HasGrating
    /\ \A k \in DOMAIN Gratings : Gratings[k][2] # "mirror"

\* C39: a move of setPath that carries wavelength carries the value 0, goes to
\* the spectrograph for a mode that asks for a mirror the gratings lack, and
\* carries no grating; that call leaves _stored["grating"] as it is; and no step
\* takes the wavelength to another value than 0.
C39_WavelengthOnlyZero ==
    [][/\ (pc = "idle" /\ pc' = "waiting")
          => /\ \A i \in DOMAIN fmoves' :
                   "wavelength" \in DOMAIN fmoves'[i].mv
                   => /\ fmoves'[i].mv = ("wavelength" :> "0")
                      /\ fmoves'[i].comp = "spectrograph"
                      /\ i <= Cardinality(FoundRoles(last_mode'))
                      /\ ZeroOrder(last_mode')
             /\ ZeroOrder(last_mode') => stored'["grating"] = stored["grating"]
       /\ \A i \in DOMAIN orphans' : "wavelength" \notin DOMAIN orphans'[i].mv
       /\ PositionOr("spectrograph", "wavelength")' # PositionOr("spectrograph", "wavelength")
          => PositionOr("spectrograph", "wavelength")' = "0"]_vars

\* after the zero order of ar a spectral mode has moved the grating, all its
\* moves done: the wavelength is still 0, not the 500nm it had
C39_Witness ==
    /\ pc = "idle"
    /\ axes = Sparc2NoMirror.axes
    /\ result.allok
    /\ result.mode \in SpectralVariants
    /\ position["spectrograph"]["wavelength"] = "0"
    /\ position["spectrograph"]["grating"] = "g1"
    /\ stored["grating"] = Absent

\* C37: no move having failed, a call that leaves the alignment modes issues no
\* restoring move that changes band (slit-in) when no mode of the excursion has
\* moved band (slit-in): that axis keeps the value it has, whatever _stored holds
\* from an earlier excursion and whoever has set the axis since.
C37_RestoreOnlyTouched ==
    [][(pc = "idle" /\ pc' = "waiting" /\ last_mode \in ALIGN_MODES
           /\ last_mode' \notin ALIGN_MODES /\ failures = 0)
       => \A i \in DOMAIN fmoves' :
             i > Cardinality(FoundRoles(last_mode'))
             => /\ ("band" \in DOMAIN fmoves'[i].mv /\ ~excursion.movBand)
                   => fmoves'[i].mv["band"] = PositionOr("filter", "band")
                /\ ("slit-in" \in DOMAIN fmoves'[i].mv /\ ~excursion.movSlit)
                   => fmoves'[i].mv["slit-in"] = PositionOr("spectrograph", "slit-in")]_vars

\* C35: a call of setPath that raises the ValueError of findNonMirror has issued
\* no move, and leaves _stored and _last_mode as they were.
C35_RaiseNoEffect ==
    [][(pc = "idle" /\ pc' = "raised" /\ raised'.exc = "NoNonMirrorGrating")
       => /\ orphans' = orphans
          /\ fmoves' = fmoves
          /\ stored' = stored
          /\ last_mode' = last_mode]_vars

\* C31: with actuators that resolve every future, a call of setPath that waits
\* returns in the end; and as long as a future of the call is not resolved the
\* call does not return, however long that takes.
C31_ReturnsWhenResolved ==
    /\ (pc = "waiting") ~> (pc = "idle")
    /\ [][(pc = "waiting" /\ \E i \in DOMAIN fmoves : fmoves[i].st = "pending")
          => pc' = "waiting"]_vars

\* a call with three futures has returned, one of them resolved by a failure
C31_Witness ==
    /\ pc = "idle"
    /\ result.mode = last_mode
    /\ ~result.allok
    /\ failures = 1
    /\ Cardinality(FoundRoles(last_mode)) >= 3
=============================================================================
